---- MODULE Spec2Model ----
(***************************************************************************)
(* ArcticVend: the order-to-fulfillment pipeline of the kiosk application. *)
(*                                                                         *)
(* The model follows src/app.py (the Flask handlers), src/models.py (the   *)
(* order_queue table), src/utils.py (the queue files) and                  *)
(* src/shopify_client.py (the Shopify calls).  Every HTTP request is       *)
(* served by its own worker with its own database session, so a handler    *)
(* that reads, then calls Shopify or computes, then commits is split at    *)
(* those points and other requests may run in between.                     *)
(***************************************************************************)
EXTENDS Integers, Sequences, FiniteSets, Bags, TLC

\* ------------------------------------------------------------------ bounds
NProcs      == 2    \* API / admin / pickup requests that can be in flight together
MaxOrders   == 1    \* checkouts that reach Shopify order creation
MaxRequests == 3    \* API / admin / pickup requests served in one behaviour
MaxTime     == 2    \* readings of the wall clock
MaxQty      == 2    \* largest quantity of one cart line
MaxLines    == 2    \* most lines of the cart
MaxHist     == 2    \* committed operations remembered per order
MaxRetries  == 4    \* largest max_retries a call of retry_operation is given
MaxDelay    == 2    \* largest delay a call of retry_operation is given
MaxStock    == 2    \* largest "available" of an inventory level

\* a column that holds NULL / a Python None
None == 0

\* ------------------------------------------------------- program constants
\* src/models.py:38  CheckConstraint valid_status
ValidStatus == {"pending", "processing", "completed", "failed"}

\* the products the kiosk offers (product_id and sku coincide in the model)
Skus == {"A", "B"}

\* the one product on offer where the claims are about the order pipeline
\* rather than the contents of the cart
PipelineSkus == {"A"}

\* src/app.py check_shelf_compatibility for box_size 'medium', the size
\* assign_shelf gives a product that has no metadata: shelves 16 to 30
check_shelf_compatibility(shelf_number) == 16 <= shelf_number /\ shelf_number <= 30

\* the shelf numbers of the model, and one that is too small for a medium box
ShelfNumbers == {16, 17}
SmallShelf == 5

\* the order_queue row a delivery partner integration has written before the
\* kiosk starts: the repository only reads such rows (order_type 'wolt')
WoltRow(remoteId) ==
    [id |-> 1, order_type |-> "wolt", shopify_order_id |-> remoteId,
     items |-> <<[sku |-> "A", quantity |-> 1]>>, status |-> "pending",
     pickup_code |-> "123456", test_order |-> FALSE,
     created_at |-> 1, processed_at |-> None, completed_at |-> None]

\* ids of order rows
OrderIds  == 1..(MaxOrders + 1)
UnknownId == MaxOrders + 2          \* an id in a URL that names no row

VARIABLES
    db,            \* order_queue table: sequence of rows in insertion order
    files,         \* queue files under ./orders/<status>/
    shopify,       \* ids of the orders that exist in Shopify
    fulfillCalls,  \* order id -> number of shopify_client.fulfill_order calls made for it
    claimReturns,  \* order id -> number of /api/orders/next responses that returned it
    hist,          \* order id -> the committed operations on the row, in order
    now,           \* the wall clock
    cart,          \* session['cart'] of the kiosk session, in insertion order
    kpc,           \* position of the kiosk session's checkout request
    order_data,    \* the Shopify order the checkout request got back
    inflight,      \* bag of the API / admin / pickup requests between two steps
    resp,          \* the last response sent
    reqs,          \* API / admin / pickup requests served so far
    shelves,       \* shelf_mappings table: the set of its rows
    test_mode,     \* session['test_mode'] of the kiosk session
    log,           \* the error lines the checkout and save_order_to_queue have logged
    retry,         \* the call of utils.retry_operation that is running
    product_cache, \* ShopifyClient._product_cache: the set of its (id, data) entries
    cache_timestamp, \* ShopifyClient._cache_timestamp
    fetch          \* what get_products last fetched and what it last returned

vars == <<db, files, shopify, fulfillCalls, claimReturns, hist, now, cart, kpc,
          order_data, inflight, resp, reqs, shelves, test_mode, log, retry,
          product_cache, cache_timestamp, fetch>>

\* the product cache of the Shopify client
catalog == <<product_cache, cache_timestamp, fetch>>

\* what the order pipeline leaves alone
env == <<shelves, test_mode, retry, catalog>>

\* --------------------------------------------------------------- helpers
\* no call of retry_operation is running
NoRetry == [pc |-> "idle"]

\* get_products has not been called: nothing fetched, nothing returned
NoFetch == [last |-> {}, out |-> {}, cached |-> FALSE]

\* a line of the error log: its message and the Shopify order its text names
LogLine(msg, id) == [msg |-> msg, shopify_order_id |-> id]

Ids == {db[i].id : i \in 1..Len(db)}

Idx(id) == CHOOSE i \in 1..Len(db) : db[i].id = id

Row(id) == db[Idx(id)]

NoResp == [op |-> "none", code |-> 0, status |-> "none", order |-> None,
           shelf_numbers |-> <<>>]

Resp(op, code, status, order) ==
    [op |-> op, code |-> code, status |-> status, order |-> order,
     shelf_numbers |-> <<>>]

\* a request between two steps: the step it stands before, the order it has
\* loaded, the status it saw, the result of its shopify_client.fulfill_order call
Req(at, order, seen, ok) == [pc |-> at, cur |-> order, seen |-> seen, ok |-> ok]

Requests == BagToSet(inflight)

\* a worker takes a new request
Accept ==
    /\ BagCardinality(inflight) < NProcs
    /\ reqs < MaxRequests
    /\ reqs' = reqs + 1

Suspend(r) == inflight' = inflight (+) SetToBag({r})

Resume(r) == inflight' = inflight (-) SetToBag({r})

\* the committed operations on a row: the first MaxHist, then "more"
Log(id, op) ==
    [hist EXCEPT ![id] = IF Len(@) < MaxHist
                         THEN Append(@, [op |-> op, at |-> now])
                         ELSE <<[op |-> "more", at |-> None]>>]

\* a write of the row that also clears its items
SetRowClearingItems(id, row) == [db EXCEPT ![Idx(id)] = [row EXCEPT !.items = <<>>]]

\* UPDATE order_queue SET ... WHERE id = :id  (session commit of a dirty row)
SetRow(id, row) == [db EXCEPT ![Idx(id)] = row]

\* uuid.uuid4(): an id no row and no queue file carries yet
NewUuid ==
    LET used == Ids \cup {f.order_id : f \in files}
    IN  CHOOSE n \in 1..(Cardinality(used) + 1) : n \notin used

\* the id Shopify gives the next order it creates (1 is the delivery order's)
NewShopifyId == 2 + Cardinality(shopify \ {1})

\* datetime.now().isoformat(): the second and, below the second, a reading
\* that is later than that of every write before it
Instant == [second |-> now, sub |-> Cardinality(files)]

\* src/utils.py save_order_to_queue: the file ./orders/<status>/<timestamp>_<order_id>.json
\* is opened with mode 'w', so a file already at that path is replaced
save_order_to_queue(order_data_, status) ==
    LET f == [dir |-> status, ts |-> now, order_id |-> order_data_.order_id,
              data |-> order_data_]
    IN  {g \in files : ~(g.dir = f.dir /\ g.ts = f.ts /\ g.order_id = f.order_id)}
            \cup {f}

\* ShelfMapping.query.filter_by(sku=sku, active=True): the shelf numbers of the
\* rows the query matches.  first() carries no ORDER BY, so with several
\* matching rows any of them can be the one returned.
ActiveShelves(sku) ==
    {m.shelf_number : m \in {n \in shelves : n.sku = sku /\ n.active}}

\* [x] * k
Repeat(x, k) == [i \in 1..k |-> x]

\* src/app.py:224-228, the loop of complete_order: the lists shelf_numbers can
\* end up as.  One append for each cart item that has an active shelf.
RECURSIVE checkout_shelf_numbers(_)
checkout_shelf_numbers(items) ==
    IF items = <<>> THEN {<<>>}
    ELSE LET item == Head(items)
             found == ActiveShelves(item.sku)
             head == IF found = {} THEN {<<>>} ELSE {<<n>> : n \in found}
         IN  {h \o t : h \in head, t \in checkout_shelf_numbers(Tail(items))}

\* the loop of api_next_order with one append per item instead of one per unit
RECURSIVE next_shelf_numbers_per_item(_)
next_shelf_numbers_per_item(items) ==
    IF items = <<>> THEN {<<>>}
    ELSE LET found == ActiveShelves(Head(items).sku)
             head == IF found = {} THEN {<<>>} ELSE {<<n>> : n \in found}
         IN  {h \o t : h \in head, t \in next_shelf_numbers_per_item(Tail(items))}

\* src/app.py:646-653, the loop of api_next_order: the lists shelf_numbers can
\* end up as.  range(item['quantity']) appends for each cart item that has an
\* active shelf.
RECURSIVE next_shelf_numbers(_)
next_shelf_numbers(items) ==
    IF items = <<>> THEN {<<>>}
    ELSE LET item == Head(items)
             found == ActiveShelves(item.sku)
             head == IF found = {} THEN {<<>>}
                     ELSE {Repeat(n, item.quantity) : n \in found}
         IN  {h \o t : h \in head, t \in next_shelf_numbers(Tail(items))}

\* ------------------------------------------------------------------- Init
SeedDBs == {<<>>, <<WoltRow(1)>>, <<WoltRow(None)>>}

Init ==
    /\ db \in SeedDBs
    /\ files = {}
    /\ shopify = {db[i].shopify_order_id : i \in 1..Len(db)} \ {None}
    /\ fulfillCalls = [o \in OrderIds |-> 0]
    /\ claimReturns = [o \in OrderIds |-> 0]
    /\ hist = [o \in OrderIds |-> <<>>]
    /\ now = 1
    /\ cart = <<>>
    /\ kpc = "idle"
    /\ order_data = None
    /\ inflight = EmptyBag
    /\ resp = NoResp
    /\ reqs = 0
    /\ shelves = {[shelf_number |-> 16, sku |-> "A", active |-> TRUE]}
    /\ test_mode = FALSE
    /\ log = {}
    /\ retry = NoRetry
    /\ product_cache = {}
    /\ cache_timestamp = None
    /\ fetch = NoFetch

\* the wall clock moves on
Tick ==
    /\ now < MaxTime
    /\ now' = now + 1
    /\ UNCHANGED <<db, files, shopify, fulfillCalls, claimReturns, hist, cart, kpc,
                   order_data, inflight, resp, reqs>>
    /\ UNCHANGED <<env, log>>

\* ------------------------------------------------------- kiosk: the cart
\* POST /kiosk/add_to_cart
add_to_cart(sku, quantity) ==
    /\ kpc = "idle"
    /\ LET have == {i \in 1..Len(cart) : cart[i].sku = sku}
       IN  IF have # {}
           THEN LET i == CHOOSE j \in have : TRUE
                IN  /\ cart[i].quantity + quantity <= MaxQty
                    /\ cart' = [cart EXCEPT ![i].quantity = @ + quantity]
           ELSE /\ Len(cart) < MaxLines
                /\ cart' = Append(cart, [sku |-> sku, quantity |-> quantity])
    /\ UNCHANGED <<db, files, shopify, fulfillCalls, claimReturns, hist, now, kpc,
                   order_data, inflight, resp, reqs>>
    /\ UNCHANGED <<env, log>>

\* POST /kiosk/remove_from_cart
remove_from_cart(product_id) ==
    /\ kpc = "idle"
    /\ cart' = SelectSeq(cart, LAMBDA item : item.sku # product_id)
    /\ UNCHANGED <<db, files, shopify, fulfillCalls, claimReturns, hist, now, kpc,
                   order_data, inflight, resp, reqs>>
    /\ UNCHANGED <<env, log>>

\* POST /kiosk/authenticate_test: the credentials name an active test user or
\* they do not
authenticate_test(test_user) ==
    /\ kpc = "idle"
    /\ IF test_user
       THEN /\ test_mode' = TRUE
            /\ resp' = Resp("test_login", 302, "success", None)
       ELSE /\ resp' = Resp("test_login", 302, "invalid", None)
            /\ UNCHANGED test_mode
    /\ UNCHANGED <<db, files, shopify, fulfillCalls, claimReturns, hist, now, cart,
                   kpc, order_data, inflight, reqs, shelves, log, retry, catalog>>

\* ------------------------------------- POST /admin/shelves/assign (staff)
\* the product has no metadata or metadata of box size 'medium'
assign_shelf(shelf_number, sku) ==
    /\ IF check_shelf_compatibility(shelf_number)
       THEN /\ shelves' = {n \in shelves : n.shelf_number # shelf_number}
                              \cup {[shelf_number |-> shelf_number, sku |-> sku,
                                     active |-> TRUE]}
            /\ resp' = Resp("assign", 200, "success", None)
       ELSE /\ resp' = Resp("assign", 400, "error", None)
            /\ UNCHANGED shelves
    /\ UNCHANGED <<db, files, shopify, fulfillCalls, claimReturns, hist, now, cart,
                   kpc, order_data, inflight, reqs, test_mode, log, retry, catalog>>

\* ---------------------------------------------------- kiosk: the checkout
\* complete_order_create without the "if not order_data" return: a failed
\* creation goes on to persist the order
complete_order_create_unchecked ==
    /\ kpc = "idle"
    /\ cart # <<>>
    /\ order_data' = NewShopifyId
    /\ kpc' = "persist"
    /\ UNCHANGED <<db, files, shopify, fulfillCalls, claimReturns, hist, now, cart,
                   inflight, resp, reqs>>
    /\ UNCHANGED <<env, log>>

\* complete_order_create without the "if not cart" return: an empty cart goes
\* on to Shopify order creation
complete_order_create_any_cart ==
    /\ kpc = "idle"
    /\ Cardinality(shopify \ {1}) < MaxOrders
    /\ shopify' = shopify \cup {NewShopifyId}
    /\ order_data' = NewShopifyId
    /\ kpc' = "persist"
    /\ UNCHANGED <<db, files, fulfillCalls, claimReturns, hist, now, cart, inflight,
                   resp, reqs>>
    /\ UNCHANGED <<env, log>>

\* POST /kiosk/complete_order, up to the return of shopify_client.create_order.
\* create_order returns the created order on HTTP 201 and None on any other
\* status, on a timeout and on any exception.  On a timeout Shopify may have
\* created the order all the same.
complete_order_create ==
    /\ kpc = "idle"
    /\ IF cart = <<>>
       THEN /\ resp' = Resp("checkout", 302, "empty_cart", None)
            /\ UNCHANGED <<shopify, order_data, kpc>>
       ELSE \/ /\ Cardinality(shopify \ {1}) < MaxOrders
               /\ shopify' = shopify \cup {NewShopifyId}
               /\ order_data' = NewShopifyId
               /\ kpc' = "persist"
               /\ UNCHANGED resp
            \/ /\ resp' = Resp("checkout", 302, "error", None)
               /\ \/ UNCHANGED shopify
                  \/ /\ Cardinality(shopify \ {1}) < MaxOrders
                     /\ shopify' = shopify \cup {NewShopifyId}
               /\ UNCHANGED <<order_data, kpc>>
    /\ UNCHANGED <<db, files, fulfillCalls, claimReturns, hist, now, cart, inflight,
                   reqs>>
    /\ UNCHANGED <<env, log>>

\* POST /kiosk/complete_order, up to the return of shopify_client.create_order,
\* where the order in Shopify's 201 answer carries an id that a row of
\* order_queue carries already
complete_order_create_known(id) ==
    /\ kpc = "idle"
    /\ cart # <<>>
    /\ id \in {db[i].shopify_order_id : i \in 1..Len(db)} \ {None}
    /\ NewUuid \in OrderIds
    /\ order_data' = id
    /\ kpc' = "persist"
    /\ UNCHANGED <<db, files, shopify, fulfillCalls, claimReturns, hist, now, cart,
                   inflight, resp, reqs>>
    /\ UNCHANGED <<env, log>>

\* complete_order_persist on a table without the unique constraint on
\* shopify_order_id
complete_order_persist_not_unique ==
    /\ kpc = "persist"
    /\ \E shelf_numbers \in checkout_shelf_numbers(cart), saved \in BOOLEAN,
          committed \in BOOLEAN, named \in {None, order_data} :
         LET order_id == NewUuid
             queue_data == [order_id |-> order_id, order_type |-> "kiosk",
                            shopify_order_id |-> order_data, items |-> cart,
                            shelf_numbers |-> shelf_numbers,
                            test_order |-> test_mode]
             db_order == [id |-> order_id, order_type |-> "kiosk",
                          shopify_order_id |-> order_data, items |-> cart,
                          status |-> "pending", pickup_code |-> "",
                          test_order |-> test_mode, created_at |-> now,
                          processed_at |-> None, completed_at |-> None]
         IN  /\ files' = IF saved THEN save_order_to_queue(queue_data, "pending")
                         ELSE files
             /\ log' = log \cup (IF saved THEN {}
                                 ELSE {LogLine("Error saving order to queue", None)})
                           \cup (IF committed THEN {}
                                 ELSE {LogLine("Error completing order", named)})
             /\ IF committed
                THEN /\ db' = Append(db, db_order)
                     /\ cart' = <<>>
                     /\ resp' = Resp("checkout", 200, "order_complete", order_id)
                ELSE /\ resp' = Resp("checkout", 302, "error", None)
                     /\ UNCHANGED <<db, cart>>
    /\ kpc' = "idle"
    /\ order_data' = None
    /\ UNCHANGED <<shopify, fulfillCalls, claimReturns, hist, now, inflight, reqs>>
    /\ UNCHANGED env

\* the handler without "session.pop('cart', None)": the cart stays after a
\* checkout that succeeded
complete_order_persist_keeps_cart ==
    /\ kpc = "persist"
    /\ \E shelf_numbers \in checkout_shelf_numbers(cart), saved \in BOOLEAN,
          committed \in BOOLEAN, named \in {None, order_data} :
         LET order_id == NewUuid
             queue_data == [order_id |-> order_id, order_type |-> "kiosk",
                            shopify_order_id |-> order_data, items |-> cart,
                            shelf_numbers |-> shelf_numbers,
                            test_order |-> test_mode]
             db_order == [id |-> order_id, order_type |-> "kiosk",
                          shopify_order_id |-> order_data, items |-> cart,
                          status |-> "pending", pickup_code |-> "",
                          test_order |-> test_mode, created_at |-> now,
                          processed_at |-> None, completed_at |-> None]
         IN  /\ committed => \A i \in 1..Len(db) : db[i].shopify_order_id # order_data
             /\ files' = IF saved THEN save_order_to_queue(queue_data, "pending")
                         ELSE files
             /\ log' = log \cup (IF saved THEN {}
                                 ELSE {LogLine("Error saving order to queue", None)})
                           \cup (IF committed THEN {}
                                 ELSE {LogLine("Error completing order", named)})
             /\ IF committed
                THEN /\ db' = Append(db, db_order)
                     /\ UNCHANGED cart
                     /\ resp' = Resp("checkout", 200, "order_complete", order_id)
                ELSE /\ resp' = Resp("checkout", 302, "error", None)
                     /\ UNCHANGED <<db, cart>>
    /\ kpc' = "idle"
    /\ order_data' = None
    /\ UNCHANGED <<shopify, fulfillCalls, claimReturns, hist, now, inflight, reqs>>
    /\ UNCHANGED env

\* POST /kiosk/complete_order after create_order returned an order: the shelf
\* lookup, the queue file, the order_queue row, the cart.
\* save_order_to_queue catches every exception of the write, logs it and
\* returns None, and the handler does not look at what it returns: with
\* saved = FALSE the handler goes on without a file.  A commit that raises
\* (committed = FALSE) ends in the handler's "except Exception": a line in the
\* log, no row, the cart stays, the answer is the error redirect.  The commit
\* raises at the latest when a row carries the shopify_order_id already
\* (src/models.py:26, unique=True).  The line logs the text of the exception,
\* which holds the parameters of the INSERT when the INSERT raised and none
\* when the COMMIT itself raised (named).
complete_order_persist ==
    /\ kpc = "persist"
    /\ \E shelf_numbers \in checkout_shelf_numbers(cart), saved \in BOOLEAN,
          committed \in BOOLEAN, named \in {None, order_data} :
         LET order_id == NewUuid
             queue_data == [order_id |-> order_id, order_type |-> "kiosk",
                            shopify_order_id |-> order_data, items |-> cart,
                            shelf_numbers |-> shelf_numbers,
                            test_order |-> test_mode]
             db_order == [id |-> order_id, order_type |-> "kiosk",
                          shopify_order_id |-> order_data, items |-> cart,
                          status |-> "pending", pickup_code |-> "",
                          test_order |-> test_mode, created_at |-> now,
                          processed_at |-> None, completed_at |-> None]
         IN  /\ committed => \A i \in 1..Len(db) : db[i].shopify_order_id # order_data
             /\ files' = IF saved THEN save_order_to_queue(queue_data, "pending")
                         ELSE files
             /\ log' = log \cup (IF saved THEN {}
                                 ELSE {LogLine("Error saving order to queue", None)})
                           \cup (IF committed THEN {}
                                 ELSE {LogLine("Error completing order", named)})
             /\ IF committed
                THEN /\ db' = Append(db, db_order)
                     /\ cart' = <<>>
                     /\ resp' = Resp("checkout", 200, "order_complete", order_id)
                ELSE /\ resp' = Resp("checkout", 302, "error", None)
                     /\ UNCHANGED <<db, cart>>
    /\ kpc' = "idle"
    /\ order_data' = None
    /\ UNCHANGED <<shopify, fulfillCalls, claimReturns, hist, now, inflight, reqs>>
    /\ UNCHANGED env

\* ------------------------------------------- GET /api/orders/next (claim)
\* the query without filter_by(status='pending')
OldestOfAnyStatus ==
    {db[i].id : i \in {j \in 1..Len(db) :
                         \A k \in 1..Len(db) : db[j].created_at <= db[k].created_at}}

\* OrderQueue.query.filter_by(status='pending').order_by(created_at).first():
\* the rows the query can return.  ORDER BY created_at leaves the order of rows
\* with equal created_at to the database, so each of them can come first.
OldestPending ==
    LET pending == {i \in 1..Len(db) : db[i].status = "pending"}
    IN  {db[i].id : i \in {j \in pending :
                             \A k \in pending : db[j].created_at <= db[k].created_at}}

\* the handler up to the query and the "if not order" return
api_next_order_query ==
    /\ Accept
    /\ IF OldestPending = {}
       THEN /\ resp' = Resp("next", 200, "no_orders", None)
            /\ UNCHANGED inflight
       ELSE /\ \E id \in OldestPending : Suspend(Req("next_commit", id, "pending", TRUE))
            /\ UNCHANGED resp
    /\ UNCHANGED <<db, files, shopify, fulfillCalls, claimReturns, hist, now, cart,
                   kpc, order_data>>
    /\ UNCHANGED <<env, log>>

\* order.status = 'processing'; order.processed_at = now; commit; the shelf
\* numbers of the items; the response.  json.loads(order.items) and the
\* ShelfMapping queries run after the commit and inside the handler's try
\* block: when one of them raises (resolved = FALSE), the handler's
\* "except Exception" answers 500 and the commit stays.
api_next_order_commit(r) ==
    /\ r.pc = "next_commit"
    /\ Resume(r)
    /\ db' = SetRow(r.cur, [Row(r.cur) EXCEPT !.status = "processing",
                                              !.processed_at = now])
    /\ hist' = Log(r.cur, "next")
    /\ \E resolved \in BOOLEAN :
          IF resolved
          THEN /\ claimReturns' = [claimReturns EXCEPT ![r.cur] = @ + 1]
               /\ \E shelf_numbers \in next_shelf_numbers(Row(r.cur).items) :
                      resp' = [Resp("next", 200, "success", r.cur)
                                  EXCEPT !.shelf_numbers = shelf_numbers]
          ELSE /\ resp' = Resp("next", 500, "error", None)
               /\ UNCHANGED claimReturns
    /\ UNCHANGED <<files, shopify, fulfillCalls, now, cart, kpc, order_data, reqs>>
    /\ UNCHANGED <<env, log>>

\* --------------------------------------- POST /api/orders/<id>/complete
\* the handler without "if order.shopify_order_id": the fulfillment is called
\* for every order
api_complete_order_call_always_fulfills(order_id) ==
    /\ Accept
    /\ IF order_id \notin Ids
       THEN /\ resp' = Resp("complete", 500, "error", order_id)
            /\ UNCHANGED <<inflight, fulfillCalls>>
       ELSE /\ fulfillCalls' = [fulfillCalls EXCEPT ![order_id] = @ + 1]
            /\ \E ok \in BOOLEAN : Suspend(Req("complete_commit", order_id,
                                              Row(order_id).status, ok))
            /\ UNCHANGED resp
    /\ UNCHANGED <<db, files, shopify, claimReturns, hist, now, cart, kpc, order_data>>
    /\ UNCHANGED <<env, log>>

\* get_or_404 and the Shopify fulfillment.  get_or_404 raises NotFound inside
\* the handler's try block; NotFound is an Exception, so the handler's
\* "except Exception" answers 500.  shopify_client.fulfill_order returns True
\* or False and never raises; the handler does not look at the result.
api_complete_order_call(order_id) ==
    /\ Accept
    /\ IF order_id \notin Ids
       THEN /\ resp' = Resp("complete", 500, "error", order_id)
            /\ UNCHANGED <<inflight, fulfillCalls>>
       ELSE /\ IF Row(order_id).shopify_order_id # None
               THEN /\ fulfillCalls' = [fulfillCalls EXCEPT ![order_id] = @ + 1]
                    /\ \E ok \in BOOLEAN : Suspend(Req("complete_commit", order_id,
                                                      Row(order_id).status, ok))
               ELSE /\ Suspend(Req("complete_commit", order_id, Row(order_id).status, TRUE))
                    /\ UNCHANGED fulfillCalls
            /\ UNCHANGED resp
    /\ UNCHANGED <<db, files, shopify, claimReturns, hist, now, cart, kpc, order_data>>
    /\ UNCHANGED <<env, log>>

\* the commit without "order.completed_at = datetime.now()"
api_complete_order_commit_no_timestamp(r) ==
    /\ r.pc = "complete_commit"
    /\ Resume(r)
    /\ db' = SetRow(r.cur, [Row(r.cur) EXCEPT !.status = "completed"])
    /\ hist' = Log(r.cur, "complete")
    /\ resp' = Resp("complete", 200, "success", r.cur)
    /\ UNCHANGED <<files, shopify, fulfillCalls, claimReturns, now, cart, kpc,
                   order_data, reqs>>
    /\ UNCHANGED <<env, log>>

\* order.status = 'completed'; order.completed_at = now; commit; 200 success
api_complete_order_commit(r) ==
    /\ r.pc = "complete_commit"
    /\ Resume(r)
    /\ db' = SetRow(r.cur, [Row(r.cur) EXCEPT !.status = "completed",
                                              !.completed_at = now])
    /\ hist' = Log(r.cur, "complete")
    /\ resp' = Resp("complete", 200, "success", r.cur)
    /\ UNCHANGED <<files, shopify, fulfillCalls, claimReturns, now, cart, kpc,
                   order_data, reqs>>
    /\ UNCHANGED <<env, log>>

\* ------------------------------- POST /admin/orders/<id>/fulfill (staff)
\* the handler of a logged-in admin session, up to the Shopify fulfillment
fulfill_order_call(order_id) ==
    /\ Accept
    /\ IF order_id \notin Ids
       THEN /\ resp' = Resp("fulfill", 302, "error", order_id)
            /\ UNCHANGED <<inflight, fulfillCalls>>
       ELSE /\ IF Row(order_id).shopify_order_id # None
               THEN /\ fulfillCalls' = [fulfillCalls EXCEPT ![order_id] = @ + 1]
                    /\ \E ok \in BOOLEAN : Suspend(Req("fulfill_commit", order_id,
                                                      Row(order_id).status, ok))
               ELSE /\ Suspend(Req("fulfill_commit", order_id, Row(order_id).status, TRUE))
                    /\ UNCHANGED fulfillCalls
            /\ UNCHANGED resp
    /\ UNCHANGED <<db, files, shopify, claimReturns, hist, now, cart, kpc, order_data>>
    /\ UNCHANGED <<env, log>>

\* order.status = 'completed'; order.completed_at = now; commit; flash success
fulfill_order_commit(r) ==
    /\ r.pc = "fulfill_commit"
    /\ Resume(r)
    /\ db' = SetRow(r.cur, [Row(r.cur) EXCEPT !.status = "completed",
                                              !.completed_at = now])
    /\ hist' = Log(r.cur, "fulfill")
    /\ resp' = Resp("fulfill", 302, "success", r.cur)
    /\ UNCHANGED <<files, shopify, fulfillCalls, claimReturns, now, cart, kpc,
                   order_data, reqs>>
    /\ UNCHANGED <<env, log>>

\* ----------------------------------------- POST /api/orders/<id>/status
\* the values a request body can carry in "status"
StatusInputs == ValidStatus \cup {"shipped"}

\* request.json.get('status') of a body without the key "status": None, which
\* the UPDATE writes as NULL
NoStatus == "null"

\* the bodies with and without the key
StatusBodies == StatusInputs \cup {NoStatus}

\* The handler reads the row and writes it in one commit with nothing in
\* between that another request could affect.  A value outside ValidStatus
\* violates the valid_status CHECK constraint: the commit raises, the session
\* is rolled back and the answer is 500.  "status IN (...)" is NULL for a NULL
\* status, which a CHECK constraint lets pass, and the column is nullable
\* (src/models.py:29): with no status in the body the commit goes through.
api_update_order_status(order_id, status) ==
    /\ Accept
    /\ IF order_id \notin Ids \/ status \notin ValidStatus \cup {NoStatus}
       THEN /\ resp' = Resp("status", 500, "error", order_id)
            /\ UNCHANGED <<db, hist>>
       ELSE /\ db' = SetRow(order_id,
                       [Row(order_id) EXCEPT
                          !.status = status,
                          !.completed_at = IF status = "completed" THEN now ELSE @,
                          !.processed_at = IF status = "processing" THEN now ELSE @])
            /\ hist' = Log(order_id, "status")
            /\ resp' = Resp("status", 200, "success", order_id)
    /\ UNCHANGED <<files, shopify, fulfillCalls, claimReturns, now, cart, kpc,
                   order_data, inflight>>
    /\ UNCHANGED <<env, log>>

\* ------------------------------------------- POST /kiosk/verify_pickup
\* the values of the form field pickup_code; "" stands for a request without
\* the field (None in the handler, NULL in the pickup_code column)
PickupCodes == {"123456", "000000", ""}

\* the query without status='pending'
PickupMatchesAnyStatus(pickup_code) ==
    {db[i].id : i \in {j \in 1..Len(db) : /\ db[j].pickup_code = pickup_code
                                          /\ db[j].order_type = "wolt"}}

\* the rows filter_by(pickup_code=, status='pending', order_type='wolt').first()
\* can return
PickupMatches(pickup_code) ==
    {db[i].id : i \in {j \in 1..Len(db) : /\ db[j].pickup_code = pickup_code
                                          /\ db[j].status = "pending"
                                          /\ db[j].order_type = "wolt"}}

\* the handler up to the query and the "if not order" return
verify_pickup_query(pickup_code) ==
    /\ Accept
    /\ IF PickupMatches(pickup_code) = {}
       THEN /\ resp' = Resp("verify", 302, "invalid_code", None)
            /\ UNCHANGED inflight
       ELSE /\ \E id \in PickupMatches(pickup_code) :
                   Suspend(Req("verify_commit", id, "pending", TRUE))
            /\ UNCHANGED resp
    /\ UNCHANGED <<db, files, shopify, fulfillCalls, claimReturns, hist, now, cart,
                   kpc, order_data>>
    /\ UNCHANGED <<env, log>>

\* order.status = 'processing'; commit; the processing queue file (written or,
\* when the write raises inside save_order_to_queue, not); the page
verify_pickup_commit(r) ==
    /\ r.pc = "verify_commit"
    /\ Resume(r)
    /\ db' = SetRow(r.cur, [Row(r.cur) EXCEPT !.status = "processing"])
    /\ \E saved \in BOOLEAN :
           /\ files' = IF saved
                       THEN save_order_to_queue(
                                [order_id |-> r.cur, order_type |-> "wolt",
                                 shopify_order_id |-> Row(r.cur).shopify_order_id,
                                 items |-> Row(r.cur).items,
                                 pickup_code |-> Row(r.cur).pickup_code,
                                 processing_at |-> Instant], "processing")
                       ELSE files
           /\ log' = log \cup (IF saved THEN {}
                               ELSE {LogLine("Error saving order to queue", None)})
    /\ hist' = Log(r.cur, "verify")
    /\ resp' = Resp("verify", 200, "pickup_confirmed", r.cur)
    /\ UNCHANGED <<shopify, fulfillCalls, claimReturns, now, cart, kpc, order_data,
                   reqs>>
    /\ UNCHANGED env

\* ------------------------------------------------------------ the system
Next ==
    \/ Tick
    \/ \E sku \in PipelineSkus, quantity \in 1..MaxQty : add_to_cart(sku, quantity)
    \/ complete_order_create
    \/ complete_order_persist
    \/ api_next_order_query
    \/ \E r \in Requests : api_next_order_commit(r)
    \/ \E order_id \in Ids \cup {UnknownId} : api_complete_order_call(order_id)
    \/ \E r \in Requests : api_complete_order_commit(r)
    \/ \E order_id \in Ids \cup {UnknownId} : fulfill_order_call(order_id)
    \/ \E r \in Requests : fulfill_order_commit(r)
    \/ \E order_id \in Ids \cup {UnknownId}, status \in StatusInputs :
           api_update_order_status(order_id, status)
    \/ \E pickup_code \in PickupCodes : verify_pickup_query(pickup_code)
    \/ \E r \in Requests : verify_pickup_commit(r)

Spec == Init /\ [][Next]_vars

\* ------------------------------------------- the bridge's API alone
\* the three endpoints of the PLC bridge, with request bodies that carry a
\* status and bodies that carry none
ApiNext ==
    \/ Tick
    \/ api_next_order_query
    \/ \E r \in Requests : api_next_order_commit(r)
    \/ \E order_id \in Ids \cup {UnknownId} : api_complete_order_call(order_id)
    \/ \E r \in Requests : api_complete_order_commit(r)
    \/ \E order_id \in Ids \cup {UnknownId}, status \in StatusBodies :
           api_update_order_status(order_id, status)

ApiSpec == Init /\ [][ApiNext]_vars

\* ------------------------------------- Shopify answers with a known id
\* the checkout and the claim where the id in Shopify's answer is not always
\* a new one
RemoteNext ==
    \/ Tick
    \/ \E sku \in PipelineSkus, quantity \in 1..MaxQty : add_to_cart(sku, quantity)
    \/ complete_order_create
    \/ \E id \in shopify : complete_order_create_known(id)
    \/ complete_order_persist
    \/ api_next_order_query
    \/ \E r \in Requests : api_next_order_commit(r)

RemoteSpec == Init /\ [][RemoteNext]_vars

\* ------------------------------------------------ the kiosk session
\* the kiosk with no order yet: carts of both products, the test login, the
\* checkout, and the retrieval system's claim and completion of what was
\* ordered
KioskInit ==
    /\ db = <<>>
    /\ files = {}
    /\ shopify = {}
    /\ fulfillCalls = [o \in OrderIds |-> 0]
    /\ claimReturns = [o \in OrderIds |-> 0]
    /\ hist = [o \in OrderIds |-> <<>>]
    /\ now = 1
    /\ cart = <<>>
    /\ kpc = "idle"
    /\ order_data = None
    /\ inflight = EmptyBag
    /\ resp = NoResp
    /\ reqs = 0
    /\ shelves = {[shelf_number |-> 16, sku |-> "A", active |-> TRUE]}
    /\ test_mode = FALSE
    /\ log = {}
    /\ retry = NoRetry
    /\ product_cache = {}
    /\ cache_timestamp = None
    /\ fetch = NoFetch

KioskNext ==
    \/ \E sku \in Skus, quantity \in 1..MaxQty : add_to_cart(sku, quantity)
    \/ \E product_id \in Skus : remove_from_cart(product_id)
    \/ \E test_user \in BOOLEAN : authenticate_test(test_user)
    \/ complete_order_create
    \/ complete_order_persist
    \/ api_next_order_query
    \/ \E r \in Requests : api_next_order_commit(r)
    \/ \E order_id \in Ids \cup {UnknownId} : api_complete_order_call(order_id)
    \/ \E r \in Requests : api_complete_order_commit(r)

KioskSpec == KioskInit /\ [][KioskNext]_vars

\* ------------------------------------------------ the shelf assignments
\* shelf_mappings tables the kiosk can start with: empty, one product on a
\* shelf, the same with the row switched off, and one product on a shelf
\* with an inactive row of the other
ShelfSeeds ==
    { {},
      {[shelf_number |-> 16, sku |-> "A", active |-> TRUE]},
      {[shelf_number |-> 16, sku |-> "A", active |-> FALSE]},
      {[shelf_number |-> 16, sku |-> "B", active |-> TRUE],
       [shelf_number |-> 17, sku |-> "A", active |-> FALSE]} }

ShelfInit ==
    /\ db = <<>>
    /\ files = {}
    /\ shopify = {}
    /\ fulfillCalls = [o \in OrderIds |-> 0]
    /\ claimReturns = [o \in OrderIds |-> 0]
    /\ hist = [o \in OrderIds |-> <<>>]
    /\ now = 1
    /\ cart = <<>>
    /\ kpc = "idle"
    /\ order_data = None
    /\ inflight = EmptyBag
    /\ resp = NoResp
    /\ reqs = 0
    /\ shelves \in ShelfSeeds
    /\ test_mode = FALSE
    /\ log = {}
    /\ retry = NoRetry
    /\ product_cache = {}
    /\ cache_timestamp = None
    /\ fetch = NoFetch

ShelfNext ==
    \/ \E sku \in Skus, quantity \in 1..MaxQty : add_to_cart(sku, quantity)
    \/ \E shelf_number \in ShelfNumbers \cup {SmallShelf}, sku \in Skus :
           assign_shelf(shelf_number, sku)
    \/ complete_order_create
    \/ complete_order_persist
    \/ api_next_order_query
    \/ \E r \in Requests : api_next_order_commit(r)

ShelfSpec == ShelfInit /\ [][ShelfNext]_vars

\* ------------------------------------------- src/utils.py retry_operation
\* what func can return and what it can raise
Results == {"up", "down"}
Exceptions == {"ConnectionError", "Timeout"}

\* the delays a caller passes; time.sleep takes seconds of any sign
Delays == (-1)..MaxDelay

\* retry_operation(func, max_retries, delay) at the head of its for loop:
\* range(max_retries) is empty for max_retries = 0, the loop body never runs
\* and the function returns None
RetryStart(max_retries, delay) ==
    [pc |-> IF max_retries > 0 THEN "call" ELSE "returned",
     max_retries |-> max_retries, delay |-> delay, attempt |-> 0,
     calls |-> <<>>, wait_time |-> 0, waits |-> <<>>, out |-> "None"]

\* the except block with "wait_time = delay" in place of
\* "wait_time = delay * (2 ** attempt)"
retry_operation_call_constant_wait ==
    /\ retry.pc = "call"
    /\ \/ \E v \in Results :
             retry' = [retry EXCEPT !.calls = Append(@, [raised |-> FALSE, what |-> v]),
                                    !.pc = "returned", !.out = v]
       \/ \E e \in Exceptions :
             IF retry.attempt = retry.max_retries - 1
             THEN retry' = [retry EXCEPT
                              !.calls = Append(@, [raised |-> TRUE, what |-> e]),
                              !.pc = "raised", !.out = e]
             ELSE retry' = [retry EXCEPT
                              !.calls = Append(@, [raised |-> TRUE, what |-> e]),
                              !.pc = "sleep",
                              !.wait_time = retry.delay]
    /\ UNCHANGED <<db, files, shopify, fulfillCalls, claimReturns, hist, now, cart,
                   kpc, order_data, inflight, resp, reqs, shelves, test_mode, log,
                   catalog>>

\* one pass of the loop body up to time.sleep: "return func()", or the except
\* block, which re-raises on the last attempt and computes wait_time otherwise
retry_operation_call ==
    /\ retry.pc = "call"
    /\ \/ \E v \in Results :
             retry' = [retry EXCEPT !.calls = Append(@, [raised |-> FALSE, what |-> v]),
                                    !.pc = "returned", !.out = v]
       \/ \E e \in Exceptions :
             IF retry.attempt = retry.max_retries - 1
             THEN retry' = [retry EXCEPT
                              !.calls = Append(@, [raised |-> TRUE, what |-> e]),
                              !.pc = "raised", !.out = e]
             ELSE retry' = [retry EXCEPT
                              !.calls = Append(@, [raised |-> TRUE, what |-> e]),
                              !.pc = "sleep",
                              !.wait_time = retry.delay * (2 ^ retry.attempt)]
    /\ UNCHANGED <<db, files, shopify, fulfillCalls, claimReturns, hist, now, cart,
                   kpc, order_data, inflight, resp, reqs, shelves, test_mode, log,
                   catalog>>

\* time.sleep(wait_time) and the step of the for loop.  time.sleep raises
\* ValueError for a negative length; raised inside the except block, it
\* leaves retry_operation.
retry_operation_sleep ==
    /\ retry.pc = "sleep"
    /\ IF retry.wait_time < 0
       THEN retry' = [retry EXCEPT !.pc = "raised", !.out = "ValueError"]
       ELSE retry' = [retry EXCEPT !.waits = Append(@, retry.wait_time),
                                   !.attempt = @ + 1,
                                   !.pc = "call"]
    /\ UNCHANGED <<db, files, shopify, fulfillCalls, claimReturns, hist, now, cart,
                   kpc, order_data, inflight, resp, reqs, shelves, test_mode, log,
                   catalog>>

\* a call of retry_operation with any bounded max_retries and delay, on an
\* empty store
RetryInit ==
    /\ db = <<>>
    /\ files = {}
    /\ shopify = {}
    /\ fulfillCalls = [o \in OrderIds |-> 0]
    /\ claimReturns = [o \in OrderIds |-> 0]
    /\ hist = [o \in OrderIds |-> <<>>]
    /\ now = 1
    /\ cart = <<>>
    /\ kpc = "idle"
    /\ order_data = None
    /\ inflight = EmptyBag
    /\ resp = NoResp
    /\ reqs = 0
    /\ shelves = {}
    /\ test_mode = FALSE
    /\ log = {}
    /\ \E max_retries \in 0..MaxRetries, delay \in Delays :
          retry = RetryStart(max_retries, delay)
    /\ product_cache = {}
    /\ cache_timestamp = None
    /\ fetch = NoFetch

RetryNext ==
    \/ retry_operation_call
    \/ retry_operation_sleep

\* func and time.sleep return, so the loop goes on until it is left
RetrySpec == RetryInit /\ [][RetryNext]_vars /\ WF_vars(RetryNext)

\* ------------------------------- src/shopify_client.py: the product cache
\* the variant ids of the kiosk location's inventory levels
ProductIds == {"p1", "p2"}

\* what Shopify can answer: the available quantity of every inventory level
Inventories == [ProductIds -> 0..MaxStock]

\* self._cache_duration = 300 seconds: one tick of the clock; a day in ticks
CacheDuration == 1
Day == 288

\* _is_cache_valid.  timedelta.seconds is the seconds within the day, the days
\* of the difference are not in it.
is_cache_valid ==
    IF cache_timestamp = None \/ product_cache = {}
    THEN FALSE
    ELSE ((now - cache_timestamp) % Day) < CacheDuration

\* the products the loop builds: an entry for every level with available > 0
ProductData(inventory) ==
    {[id |-> p, available |-> inventory[p]] : p \in {q \in ProductIds : inventory[q] > 0}}

\* self._product_cache[product_data['id']] = product_data, for each of products:
\* an entry with that id is replaced, every other entry stays
CachePut(products) ==
    {e \in product_cache : \A d \in products : d.id # e.id} \cup products

\* ShopifyClient.get_products.  With a valid cache the values of the cache are
\* returned.  Otherwise the GraphQL request: a status other than 200, an
\* "errors" answer and an exception of the request return [] and leave the
\* cache alone; an answer that is processed to its end puts every product
\* into the cache, sets the timestamp and returns the products; an exception
\* while an edge is processed (a level without variant, a price that is no
\* number) returns [] after the edges before it were put into the cache.
get_products ==
    /\ IF is_cache_valid
       THEN /\ fetch' = [fetch EXCEPT !.out = product_cache, !.cached = TRUE]
            /\ UNCHANGED <<product_cache, cache_timestamp>>
       ELSE \/ /\ fetch' = [fetch EXCEPT !.out = {}, !.cached = FALSE]
               /\ UNCHANGED <<product_cache, cache_timestamp>>
            \/ \E inventory \in Inventories :
                  LET products == ProductData(inventory)
                  IN  /\ product_cache' = CachePut(products)
                      /\ cache_timestamp' = now
                      /\ fetch' = [last |-> products, out |-> products,
                                   cached |-> FALSE]
            \/ \E inventory \in Inventories :
                  \E done \in SUBSET ProductData(inventory) :
                      /\ product_cache' = CachePut(done)
                      /\ fetch' = [fetch EXCEPT !.out = {}, !.cached = FALSE]
                      /\ UNCHANGED cache_timestamp
    /\ UNCHANGED <<db, files, shopify, fulfillCalls, claimReturns, hist, now, cart,
                   kpc, order_data, inflight, resp, reqs, shelves, test_mode, log,
                   retry>>

\* ShopifyClient.clear_cache
clear_cache ==
    /\ product_cache' = {}
    /\ cache_timestamp' = None
    /\ UNCHANGED fetch
    /\ UNCHANGED <<db, files, shopify, fulfillCalls, claimReturns, hist, now, cart,
                   kpc, order_data, inflight, resp, reqs, shelves, test_mode, log,
                   retry>>

\* the client after __init__, on an empty store
CacheInit ==
    /\ db = <<>>
    /\ files = {}
    /\ shopify = {}
    /\ fulfillCalls = [o \in OrderIds |-> 0]
    /\ claimReturns = [o \in OrderIds |-> 0]
    /\ hist = [o \in OrderIds |-> <<>>]
    /\ now = 1
    /\ cart = <<>>
    /\ kpc = "idle"
    /\ order_data = None
    /\ inflight = EmptyBag
    /\ resp = NoResp
    /\ reqs = 0
    /\ shelves = {}
    /\ test_mode = FALSE
    /\ log = {}
    /\ retry = NoRetry
    /\ product_cache = {}
    /\ cache_timestamp = None
    /\ fetch = NoFetch

CacheNext ==
    \/ Tick
    \/ get_products
    \/ clear_cache

CacheSpec == CacheInit /\ [][CacheNext]_vars

TypeOK ==
    /\ \A i \in 1..Len(db) : db[i].status \in ValidStatus \cup {NoStatus}
    /\ now \in 1..MaxTime
    /\ reqs \in 0..MaxRequests

\* ===================================================================
\* The claims
\* ===================================================================

\* the committed operations on order o so far were all claims
OnlyClaims(o) == \A i \in 1..Len(hist[o]) : hist[o][i].op = "next"

\* no request that has loaded order o is between two of its steps
Quiet(o) == \A r \in Requests : r.cur # o

\* C1: concurrent /api/orders/next requests return each pending order to
\* exactly one caller: no order is ever returned to two callers (here: an
\* order on which nothing but claims was committed is returned at most once).
C1_NoOrderClaimedTwice ==
    \A o \in OrderIds : OnlyClaims(o) => claimReturns[o] <= 1

\* the state machine of the specification: pending -> processing -> completed,
\* and pending or processing -> failed
Forward(from, to) ==
    \/ to = from
    \/ from = "pending" /\ to \in {"processing", "completed", "failed"}
    \/ from = "processing" /\ to \in {"completed", "failed"}

\* C2: in every step, the status of every order stays or moves forward
\* through pending, processing, completed, or to failed; never backward.
C2_StatusOnlyMovesForward ==
    [][\A i \in 1..Len(db) : Forward(db[i].status, db'[i].status)]_vars

\* C3: completed and failed are terminal: once an order is completed or
\* failed, no step changes its status.
C3_TerminalStatusesStay ==
    [][\A i \in 1..Len(db) :
          db[i].status \in {"completed", "failed"} => db'[i].status = db[i].status]_vars

\* C4: over any interleaving of complete and admin fulfill requests, the
\* remote fulfillment call is issued at most once for each order.
C4_FulfillAtMostOnce ==
    \A o \in OrderIds : fulfillCalls[o] <= 1

\* C5: complete(order_id) on an existing order that is not processing is
\* rejected: no remote fulfillment call, no success response, and the row
\* (status and timestamps) stays as it is.
C5_CompleteRejectsNonProcessing ==
    [][/\ \A order_id \in Ids :
             (api_complete_order_call(order_id) /\ Row(order_id).status # "processing")
                 => /\ fulfillCalls' = fulfillCalls
                    /\ inflight' = inflight
                    /\ resp'.op = "complete" /\ resp'.status # "success"
       /\ \A r \in Requests :
             (api_complete_order_commit(r) /\ r.seen # "processing")
                 => /\ db' = db
                    /\ resp'.status # "success"]_vars

\* C6: when the remote fulfillment call of complete(order_id) fails on a
\* processing order, the completion reports failure and the row stays
\* processing with completed_at unset.
C6_FailedFulfillmentKeepsProcessing ==
    [][\A r \in Requests :
          (/\ api_complete_order_commit(r)
           /\ ~r.ok
           /\ r.seen = "processing"
           /\ Row(r.cur).status = "processing")
              => /\ resp'.status # "success"
                 /\ Row(r.cur)'.status = "processing"
                 /\ Row(r.cur)'.completed_at = Row(r.cur).completed_at]_vars

\* C7: when Shopify order creation fails (create_order returns None), the
\* checkout is aborted and neither a row nor a queue file is written; a row or
\* a pending queue file is only ever written by a checkout whose Shopify order
\* was created and carries that order's id, so every kiosk order persisted has
\* its Shopify counterpart.
C7_NoLocalOrderWithoutRemote ==
    /\ [](/\ \A i \in 1..Len(db) :
               db[i].order_type = "kiosk" => db[i].shopify_order_id \in shopify
          /\ \A f \in files :
               f.dir = "pending" => f.data.shopify_order_id \in shopify)
    /\ [][/\ (complete_order_create /\ cart # <<>> /\ order_data' = None)
                => /\ resp' = Resp("checkout", 302, "error", None)
                   /\ kpc' = "idle"
                   /\ UNCHANGED <<db, files>>
          /\ (Len(db') > Len(db) \/ \E f \in files' : f \notin files /\ f.dir = "pending")
                => /\ kpc = "persist"
                   /\ order_data \in shopify
                   /\ Len(db') > Len(db)
                         => db'[Len(db')].shopify_order_id = order_data
                   /\ \A f \in files' \ files :
                         f.dir = "pending" => f.data.shopify_order_id = order_data]_vars

\* a checkout has just failed at Shopify order creation and no kiosk order exists
C7_Witness ==
    /\ resp = Resp("checkout", 302, "error", None)
    /\ cart # <<>>
    /\ kpc = "idle"
    /\ \A i \in 1..Len(db) : db[i].order_type # "kiosk"
    /\ files = {}

\* C8: for an order with a Shopify order id, a claim followed by
\* complete(order_id), with no other request on the order, takes it from
\* pending to processing (processed_at set at the claim, no fulfillment call
\* yet) and then to completed (completed_at set at the completion), with
\* exactly one remote fulfillment call.
C8_ClaimThenComplete ==
    \A o \in Ids :
        (Row(o).shopify_order_id # None /\ Quiet(o)) =>
            /\ (hist[o] = <<>>) =>
                   /\ Row(o).status = "pending"
                   /\ Row(o).processed_at = None /\ Row(o).completed_at = None
                   /\ fulfillCalls[o] = 0
            /\ (Len(hist[o]) = 1 /\ hist[o][1].op = "next") =>
                   /\ Row(o).status = "processing"
                   /\ Row(o).processed_at = hist[o][1].at
                   /\ Row(o).completed_at = None
                   /\ fulfillCalls[o] = 0
            /\ (/\ Len(hist[o]) = 2
                /\ hist[o][1].op = "next"
                /\ hist[o][2].op = "complete") =>
                   /\ Row(o).status = "completed"
                   /\ Row(o).processed_at = hist[o][1].at
                   /\ Row(o).completed_at = hist[o][2].at
                   /\ fulfillCalls[o] = 1

\* an order with a Shopify order id was claimed and then completed, at a
\* later clock reading, and no request on it is in flight
C8_Witness ==
    \E o \in Ids :
        /\ Row(o).shopify_order_id # None
        /\ Quiet(o)
        /\ Len(hist[o]) = 2
        /\ hist[o][1].op = "next"
        /\ hist[o][2].op = "complete"
        /\ hist[o][1].at < hist[o][2].at

\* the pending row that is oldest by created_at and, among those, first inserted
FirstOldestPending ==
    LET pending == {i \in 1..Len(db) : db[i].status = "pending"}
        oldest == {i \in pending : \A k \in pending : db[i].created_at <= db[k].created_at}
    IN  db[CHOOSE i \in oldest : \A k \in oldest : i <= k].id

\* C9: whenever an order is pending, /api/orders/next selects the pending
\* order with the smallest created_at, ties broken by insertion order, moves
\* exactly that order to processing and leaves every other order unchanged.
C9_ClaimTakesOldestPending ==
    [][/\ (api_next_order_query /\ \E i \in 1..Len(db) : db[i].status = "pending")
             => inflight' = inflight (+) SetToBag(
                    {Req("next_commit", FirstOldestPending, "pending", TRUE)})
       /\ \A r \in Requests :
             api_next_order_commit(r)
                 => /\ Row(r.cur)'.status = "processing"
                    /\ Len(db') = Len(db)
                    /\ \A i \in 1..Len(db) : db[i].id # r.cur => db'[i] = db[i]]_vars

\* C10: when no order is pending, /api/orders/next answers 200 no_orders and
\* changes no order, whatever the other orders' statuses are.
C10_NoPendingGivesNoOrders ==
    [][(api_next_order_query /\ \A i \in 1..Len(db) : db[i].status # "pending")
          => /\ resp' = Resp("next", 200, "no_orders", None)
             /\ UNCHANGED <<db, files, hist, inflight, claimReturns>>]_vars

\* /api/orders/next has just answered no_orders while orders exist, none pending
C10_Witness ==
    /\ resp = Resp("next", 200, "no_orders", None)
    /\ Len(db) > 0
    /\ \A i \in 1..Len(db) : db[i].status # "pending"
    /\ \E i \in 1..Len(db) : db[i].status \in {"processing", "completed", "failed"}

\* C11: whenever the checkout answers with the order-complete page, it has
\* added exactly one row, pending, carrying the id Shopify returned, and a
\* queue file of the same order_id is under pending/ with the same Shopify
\* order id and the same items as the row.  (The Shopify order number comes
\* from the same create_order result as the id and is not modelled apart.)
C11_CheckoutSuccessPersistsBoth ==
    [][(complete_order_persist /\ resp'.status = "order_complete")
          => /\ Len(db') = Len(db) + 1
             /\ \A i \in 1..Len(db) : db'[i] = db[i]
             /\ LET row == db'[Len(db')]
                IN  /\ row.id = resp'.order
                    /\ row.status = "pending"
                    /\ row.shopify_order_id = order_data
                    /\ \E f \in files' :
                          /\ f.dir = "pending"
                          /\ f.order_id = row.id
                          /\ f.data.shopify_order_id = row.shopify_order_id
                          /\ f.data.items = row.items]_vars

\* the units of the items before item i whose SKU has an active shelf
RECURSIVE MappedUnitsBefore(_, _)
MappedUnitsBefore(items, i) ==
    IF i <= 1 THEN 0
    ELSE MappedUnitsBefore(items, i - 1)
             + (IF ActiveShelves(items[i - 1].sku) = {} THEN 0
                ELSE items[i - 1].quantity)

\* the resolver of the specification: out holds, item after item, the shelf
\* number of an active assignment of the item's SKU once per unit, the units
\* of an item next to each other, and nothing for an item without one
ResolverReference(items, out) ==
    /\ Len(out) = MappedUnitsBefore(items, Len(items) + 1)
    /\ \A i \in 1..Len(items) :
          ActiveShelves(items[i].sku) # {} =>
              \E n \in ActiveShelves(items[i].sku) :
                  \A k \in 1..items[i].quantity :
                      out[MappedUnitsBefore(items, i) + k] = n

\* C12: the shelf_numbers in the pending queue file the checkout writes are
\* the resolver's result for the cart: one entry per unit of each item that
\* has an active shelf, in cart order.
C12_CheckoutShelvesPerUnit ==
    [][complete_order_persist
          => \A f \in files' \ files :
                 ResolverReference(f.data.items, f.data.shelf_numbers)]_vars

\* C13: the shelf_numbers /api/orders/next returns are the resolver's result
\* for the items of the order it claims (an inactive assignment counts as
\* none); the order is claimed whatever the list is, also when it is empty.
C13_ClaimShelvesAreResolverResult ==
    [][\A r \in Requests :
          (api_next_order_commit(r) /\ resp'.status = "success")
              => /\ resp'.order = r.cur
                 /\ Row(r.cur)'.status = "processing"
                 /\ ResolverReference(Row(r.cur).items, resp'.shelf_numbers)]_vars

\* an order of two items, both on shelves, the first of quantity 2, was
\* claimed and the response lists three shelves, two alike and then another
C13_Witness ==
    /\ resp.op = "next"
    /\ resp.status = "success"
    /\ Len(Row(resp.order).items) = 2
    /\ Row(resp.order).items[1].quantity = 2
    /\ Len(resp.shelf_numbers) = 3
    /\ resp.shelf_numbers[1] = resp.shelf_numbers[2]
    /\ resp.shelf_numbers[2] # resp.shelf_numbers[3]

\* C19: an order whose test_order flag is set never causes a call of
\* shopify_client.fulfill_order, however it is completed.
C19_TestOrderNeverFulfilled ==
    \A o \in Ids : Row(o).test_order => fulfillCalls[o] = 0

\* C20: no order is created with an empty items sequence: no row and no
\* queue file carries an empty items list, and a checkout with an empty (or
\* absent) cart creates no Shopify order, no row and no queue file.
C20_NoOrderWithoutItems ==
    /\ [](/\ \A i \in 1..Len(db) : db[i].items # <<>>
          /\ \A f \in files : f.data.items # <<>>)
    /\ [][(complete_order_create /\ cart = <<>>)
             => /\ resp' = Resp("checkout", 302, "empty_cart", None)
                /\ kpc' = "idle"
                /\ UNCHANGED <<shopify, db, files, order_data>>]_vars

\* a checkout was just refused for an empty cart while nothing was ordered yet
C20_Witness ==
    /\ resp = Resp("checkout", 302, "empty_cart", None)
    /\ cart = <<>>
    /\ kpc = "idle"
    /\ shopify = {}
    /\ db = <<>>
    /\ files = {}

\* C14: verifying the pickup code of a pending delivery order moves exactly
\* that order from pending to processing, sets its processed_at, writes a
\* processing queue file that carries the pickup code, answers with that
\* order, and leaves every other order as it is.
C14_VerifyClaimsTheOrder ==
    [][\A r \in Requests :
          (verify_pickup_commit(r) /\ Row(r.cur).status = "pending")
              => /\ Row(r.cur)'.status = "processing"
                 /\ Row(r.cur)'.processed_at = now
                 /\ \E f \in files' :
                       /\ f.dir = "processing"
                       /\ f.order_id = r.cur
                       /\ f.data.pickup_code = Row(r.cur).pickup_code
                 /\ resp'.status = "pickup_confirmed"
                 /\ resp'.order = r.cur
                 /\ Len(db') = Len(db)
                 /\ \A i \in 1..Len(db) : db[i].id # r.cur => db'[i] = db[i]]_vars

\* C15: a pickup code that belongs to no order that is both pending and a
\* delivery order (an unknown code, the code of an order that is no longer
\* pending, a request without a code) gets the invalid-code answer, which is
\* not the error answer, and changes no order and writes no queue file.
C15_UnmatchedCodeIsInvalid ==
    [][\A pickup_code \in PickupCodes :
          (/\ verify_pickup_query(pickup_code)
           /\ ~\E i \in 1..Len(db) : /\ db[i].pickup_code = pickup_code
                                     /\ db[i].status = "pending"
                                     /\ db[i].order_type = "wolt")
              => /\ resp' = Resp("verify", 302, "invalid_code", None)
                 /\ resp'.status # "error"
                 /\ UNCHANGED <<db, files, hist, inflight>>]_vars

\* the code of a delivery order that is no longer pending, or no code a
\* pending delivery order has, was just refused as invalid
C15_Witness ==
    /\ resp = Resp("verify", 302, "invalid_code", None)
    /\ \E i \in 1..Len(db) : /\ db[i].order_type = "wolt"
                             /\ db[i].pickup_code = "123456"
                             /\ db[i].status \in {"processing", "completed", "failed"}
    /\ inflight = EmptyBag
    /\ files = {}

\* C16: a pickup code confirms its order at most once, also with two
\* requests at the same time (here: an order on which nothing but pickup
\* verifications were committed was confirmed at most once).
C16_PickupCodeWorksOnce ==
    \A o \in OrderIds :
        (\A i \in 1..Len(hist[o]) : hist[o][i].op = "verify") => Len(hist[o]) <= 1

\* C17: complete and set_status with an id that names no order answer 404
\* not_found, call no Shopify fulfillment and change no order.
C17_UnknownIdIsNotFound ==
    [][/\ api_complete_order_call(UnknownId)
             => /\ resp'.code = 404
                /\ UNCHANGED <<db, fulfillCalls, inflight>>
       /\ \A status \in StatusInputs :
             api_update_order_status(UnknownId, status)
                 => /\ resp'.code = 404
                    /\ UNCHANGED <<db, fulfillCalls, inflight>>]_vars

\* the transitions set_status may make according to the specification
StatusUpdateAllowed(from, to) ==
    \/ from = "pending" /\ to \in {"processing", "failed"}
    \/ from = "processing" /\ to \in {"completed", "failed"}

\* C18: set_status asking for a transition the state machine does not have
\* (out of completed or failed, processing to pending, pending to completed)
\* does not answer success and leaves the row as it is; asking for failed
\* from pending or processing succeeds.
C18_IllegalStatusUpdateRejected ==
    [][\A order_id \in Ids, status \in ValidStatus :
          api_update_order_status(order_id, status)
              => /\ (status # Row(order_id).status
                        /\ ~StatusUpdateAllowed(Row(order_id).status, status))
                       => /\ resp'.status # "success"
                          /\ db' = db
                 /\ (status = "failed"
                        /\ Row(order_id).status \in {"pending", "processing"})
                       => /\ resp'.status = "success"
                          /\ Row(order_id)'.status = "failed"]_vars

\* C21: no two rows of order_queue carry the same Shopify order id, and a
\* checkout whose Shopify order id a row carries already adds no second row.
C21_RemoteOrderIdUnique ==
    /\ [](\A i, j \in 1..Len(db) :
             (i # j /\ db[i].shopify_order_id # None)
                 => db[i].shopify_order_id # db[j].shopify_order_id)
    /\ [][(/\ complete_order_persist
           /\ \E i \in 1..Len(db) : db[i].shopify_order_id = order_data)
             => /\ db' = db
                /\ resp'.status # "order_complete"]_vars

\* a checkout got the Shopify order id of an existing row, wrote its queue
\* file and was refused by the table: the file names that id under another
\* order_id, and the answer was the error redirect
C21_Witness ==
    /\ resp = Resp("checkout", 302, "error", None)
    /\ \E l \in log : l.msg = "Error completing order"
    /\ \E f \in files : \E i \in 1..Len(db) :
          /\ f.dir = "pending"
          /\ f.data.shopify_order_id = db[i].shopify_order_id
          /\ f.order_id # db[i].id

\* C22: every step that adds a row or changes a row's status leaves a queue
\* file of that order under the directory of the row's new status.
C22_TransitionWritesFile ==
    [][\A i \in 1..Len(db') :
          (i > Len(db) \/ db'[i].status # db[i].status)
              => \E f \in files' : /\ f.order_id = db'[i].id
                                   /\ f.dir = db'[i].status]_vars

\* C23: when the checkout has created the Shopify order and the queue file
\* or the row is not written, the step records a line that names that
\* Shopify order.
C23_PersistFailureIsRecorded ==
    [][(/\ complete_order_persist
        /\ \/ files' = files
           \/ db' = db)
          => \E l \in log' : l.shopify_order_id = order_data]_vars

\* C24: completing a processing order that carries no Shopify order id calls
\* no fulfillment, and the commit marks the order completed with
\* completed_at set.
C24_CompleteWithoutRemoteId ==
    /\ [][\A id \in Ids :
            (/\ api_complete_order_call(id)
             /\ Row(id).status = "processing"
             /\ Row(id).shopify_order_id = None)
               => /\ fulfillCalls' = fulfillCalls
                  /\ inflight' = inflight (+) SetToBag(
                         {Req("complete_commit", id, "processing", TRUE)})]_vars
    /\ [][\A r \in Requests :
            (/\ api_complete_order_commit(r)
             /\ Row(r.cur).shopify_order_id = None)
               => /\ db'[Idx(r.cur)].status = "completed"
                  /\ db'[Idx(r.cur)].completed_at = now
                  /\ resp' = Resp("complete", 200, "success", r.cur)]_vars

\* an order without a Shopify order id was claimed and completed, and no
\* fulfillment was ever called for it
C24_Witness ==
    \E i \in 1..Len(db) :
        /\ db[i].shopify_order_id = None
        /\ db[i].status = "completed"
        /\ db[i].completed_at # None
        /\ db[i].processed_at # None
        /\ fulfillCalls[db[i].id] = 0
        /\ resp = Resp("complete", 200, "success", db[i].id)

\* C25: every row in processing has processed_at set, and every completed
\* row has processed_at and completed_at set.
C25_TimestampsFollowStatus ==
    \A i \in 1..Len(db) :
        /\ db[i].status = "processing" => db[i].processed_at # None
        /\ db[i].status = "completed" => /\ db[i].processed_at # None
                                         /\ db[i].completed_at # None

\* C26: no step removes a row or reorders the table, and a step changes
\* nothing of a stored row but status, processed_at and completed_at.
C26_OnlyStatusAndStampsChange ==
    [][/\ Len(db') >= Len(db)
       /\ \A i \in 1..Len(db) :
             [db'[i] EXCEPT !.status = "", !.processed_at = None,
                            !.completed_at = None]
               = [db[i] EXCEPT !.status = "", !.processed_at = None,
                               !.completed_at = None]]_vars

\* a kiosk order has gone through checkout, api_next_order and completion:
\* it is completed with both timestamps and still has its Shopify id and
\* its items
C26_Witness ==
    \E i \in 1..Len(db) :
        /\ db[i].order_type = "kiosk"
        /\ db[i].status = "completed"
        /\ db[i].processed_at # None
        /\ db[i].completed_at # None
        /\ db[i].shopify_order_id \in shopify
        /\ db[i].items # <<>>

\* C27: a queue file, once written, stays as it was written: no step
\* replaces, changes or removes it.
C27_QueueFilesAppendOnly ==
    [][\A f \in files : f \in files']_vars

\* C28: the status of every row is one of pending, processing, completed and
\* failed, and a status update with any other value, or with none, is not
\* answered with success and leaves the table as it was.
C28_StatusStaysValid ==
    /\ [](\A i \in 1..Len(db) : db[i].status \in ValidStatus)
    /\ [][\A order_id \in Ids, status \in StatusBodies \ ValidStatus :
             api_update_order_status(order_id, status)
                => /\ resp'.status # "success"
                   /\ db' = db]_vars

\* what C29 says of a call of retry_operation, at every point of the call:
\* func is called at most max_retries times; a return gives the result of the
\* first call that did not raise; an exception leaving the function is that
\* of the last of max_retries failed calls; the waits so far are delay,
\* 2 * delay, 4 * delay, ..., one after each failed call but the last
RetryContract ==
    LET n == Len(retry.calls)
    IN  /\ n <= retry.max_retries
        /\ \A k \in 1..(n - 1) : retry.calls[k].raised
        /\ \A k \in 1..Len(retry.waits) : retry.waits[k] = retry.delay * (2 ^ (k - 1))
        /\ retry.pc = "call" => Len(retry.waits) = n
        /\ retry.pc = "sleep" => Len(retry.waits) = n - 1
        /\ retry.pc = "returned" => /\ ~retry.calls[n].raised
                                    /\ retry.out = retry.calls[n].what
                                    /\ Len(retry.waits) = n - 1
        /\ retry.pc = "raised" => /\ n = retry.max_retries
                                  /\ retry.calls[n].raised
                                  /\ retry.out = retry.calls[n].what
                                  /\ Len(retry.waits) = n - 1

\* C29 as stated: for every max_retries >= 1 and every delay the call keeps
\* to the contract and comes to an end.
C29_RetryAsStated ==
    /\ [](retry.max_retries >= 1 => RetryContract)
    /\ (retry.max_retries >= 1) ~> (retry.pc \in {"returned", "raised"})

\* C29 for delays that are not negative: for every max_retries >= 1 and
\* delay >= 0 the call keeps to the contract and comes to an end.
C29_RetryTerminatesWithBackoff ==
    /\ []((retry.max_retries >= 1 /\ retry.delay >= 0) => RetryContract)
    /\ (retry.max_retries >= 1 /\ retry.delay >= 0)
          ~> (retry.pc \in {"returned", "raised"})

\* every one of at least three calls failed: two waits, the second twice the
\* first, and the exception of the last call left the function
C29_Witness ==
    /\ retry.pc = "raised"
    /\ retry.max_retries >= 3
    /\ retry.delay >= 1
    /\ Len(retry.calls) = retry.max_retries
    /\ retry.waits[2] = 2 * retry.delay
    /\ retry.out = retry.calls[retry.max_retries].what

\* C30: every queue file under pending/ carries the id of a row of
\* order_queue.
C30_PendingFileHasRow ==
    \A f \in files : f.dir = "pending" => f.order_id \in Ids

\* C31: a request to /api/orders/next that is answered with the error outcome
\* has moved no order from pending to processing.
C31_ErrorAnswerClaimsNothing ==
    [][\A r \in Requests :
          (api_next_order_commit(r) /\ resp'.status = "error")
              => \A i \in 1..Len(db) :
                    db[i].status = "pending" => db'[i].status = "pending"]_vars

\* C32: a get_products call answered from the cache returns exactly the
\* products the most recent successful fetch returned.
C32_CacheAnswersLastFetch ==
    fetch.cached => fetch.out = fetch.last

\* C33: a checkout that succeeds empties the session cart, and a checkout
\* submitted with the cart empty creates no Shopify order; a checkout that
\* is answered with the error, at the creation or at the persistence, leaves
\* the cart as it was.
C33_CartClearedOnlyOnSuccess ==
    /\ [][(complete_order_persist /\ resp'.status = "order_complete")
             => cart' = <<>>]_vars
    /\ [][(complete_order_create /\ cart = <<>>)
             => /\ shopify' = shopify
                /\ kpc' = "idle"
                /\ db' = db
                /\ resp' = Resp("checkout", 302, "empty_cart", None)]_vars
    /\ [][((complete_order_create \/ complete_order_persist)
              /\ resp'.status = "error")
             => cart' = cart]_vars

\* a checkout succeeded and the submission after it, in the same session,
\* was turned away for its empty cart: one kiosk order, one Shopify order
C33_Witness ==
    /\ resp = Resp("checkout", 302, "empty_cart", None)
    /\ cart = <<>>
    /\ kpc = "idle"
    /\ \E i \in 1..Len(db) : /\ db[i].order_type = "kiosk"
                             /\ db[i].shopify_order_id \in shopify
    /\ Cardinality(shopify \ {1}) = 1

====
